---------------------------- MODULE Spec2Model ----------------------------
(***************************************************************************)
(* Model of src/crud.py (Brav'us Burguer): the SQLite store (insumos,      *)
(* compras, receitas, vendas), the functions that read and write it, and   *)
(* the Tk handlers of BravusApp that call them.                            *)
(*                                                                         *)
(* REAL columns and Python floats are modelled as exact rationals          *)
(* <<numerator, denominator>> in lowest terms (denominator > 0), with      *)
(* <<1, 0>> and <<-1, 0>> for the infinities and <<0, 0>> for not-a-number *)
(* (which SQLite stores as NULL); the rounding of IEEE doubles is not      *)
(* modelled.  A timestamp                                                  *)
(* "YYYY-MM-DD HH:MM:SS" is the record [dia, seg]: the day number and the  *)
(* second of the day.                                                      *)
(***************************************************************************)
EXTENDS Integers, Sequences, FiniteSets, TLC

VARIABLES
    db,           \* the committed content of bravus.db
    now,          \* the wall clock read by datetime.now()
    tree_vendas,  \* ids of the rows shown in BravusApp.tree_vendas
    vnd_receita,  \* recipe id held by the combobox variable (0: empty)
    rel,          \* figures shown on the report tab (var_card_*, tree_rel)
    msg,          \* how the handler that ran last reported: the messagebox
                  \* call it made ("showinfo", "showwarning"), "exception"
                  \* when it raised, "" when it showed nothing
    call,         \* arguments of the direct call of registrar_venda or
                  \* _agg_vendas, when the last call was one (else <<>>)
    ret           \* what that call of _agg_vendas returned

vars == <<db, now, tree_vendas, vnd_receita, rel, msg, call, ret>>
ui == <<tree_vendas, vnd_receita, rel>>

(***************************************************************************)
(* Exact rational arithmetic standing for Python float arithmetic.         *)
(***************************************************************************)
Abs(n) == IF n < 0 THEN -n ELSE n

RECURSIVE GCD(_, _)
GCD(a, b) == IF b = 0 THEN a ELSE GCD(b, a % b)

Sgn(n) == IF n < 0 THEN -1 ELSE IF n > 0 THEN 1 ELSE 0

\* the rational n/d in lowest terms with a positive denominator; with d = 0
\* the infinity of the sign of n, and not-a-number for 0/0
Rat(n, d) ==
    IF d = 0 THEN <<Sgn(n), 0>>
    ELSE LET s == IF d < 0 THEN -1 ELSE 1
             g == GCD(Abs(n), Abs(d))
         IN  <<(s * n) \div g, (s * d) \div g>>

R(n) == <<n, 1>>
Zero == R(0)

\* float("inf"), accepted by float() and Decimal()
Inf == <<1, 0>>

\* not-a-number: what inf - inf, inf * 0 and inf / inf give and a REAL column
\* holds as NULL.  As an input it stands for a text that float(), Decimal()
\* and int() cannot parse ("abc").  int() also refuses a text with a
\* fractional part and "inf".
NaN == <<0, 0>>
IsNum(x) == x # NaN
IsInt(x) == x[2] = 1

\* position of a value against the finite ones: -1, 0, 1
Lado(x) == IF x[2] = 0 THEN x[1] ELSE 0

RAdd(x, y) ==
    IF x[2] = 0 /\ y[2] = 0
    THEN IF x = y THEN x ELSE NaN
    ELSE Rat(x[1] * y[2] + y[1] * x[2], x[2] * y[2])
RSub(x, y) ==
    IF x[2] = 0 /\ y[2] = 0
    THEN IF x[1] = -y[1] THEN x ELSE NaN
    ELSE Rat(x[1] * y[2] - y[1] * x[2], x[2] * y[2])
RMul(x, y) == Rat(x[1] * y[1], x[2] * y[2])
RDiv(x, y) ==
    IF x[2] = 0 /\ y[2] # 0
    THEN <<x[1] * (IF y[1] < 0 THEN -1 ELSE 1), 0>>
    ELSE Rat(x[1] * y[2], x[2] * y[1])
RLt(x, y) ==
    /\ x # NaN
    /\ y # NaN
    /\ IF x[2] = 0 \/ y[2] = 0 THEN Lado(x) < Lado(y)
       ELSE x[1] * y[2] < y[1] * x[2]
RLe(x, y) ==
    /\ x # NaN
    /\ y # NaN
    /\ IF x[2] = 0 \/ y[2] = 0 THEN Lado(x) <= Lado(y)
       ELSE x[1] * y[2] <= y[1] * x[2]

(***************************************************************************)
(* A connection: `db' is what is committed, `tx' what the open             *)
(* transaction has written.  close() discards an uncommitted transaction.  *)
(***************************************************************************)
get_conn(d) == [db |-> d, tx |-> d]
conn_commit(c) == [c EXCEPT !.db = c.tx]

\* close() that keeps what the open transaction wrote
conn_close_sem_rollback(c) == c.tx

conn_close(c) == c.db


(***************************************************************************)
(* Inputs the handlers are driven with.                                    *)
(***************************************************************************)
Nomes == {"A", "B"}
NomeInputs == Nomes \cup {""}
CategoriaInputs == {"carnes"}
UnidadeInputs == {"kg"}
QtdInputs == {NaN, R(0), R(10)}
PrecoInputs == {NaN, R(0), R(5), R(10)}
Falhas == {"", "compras", "insumos", "commit"}

\* ingredient rows ever inserted
MaxInsumos == 2
\* purchase rows ever inserted
MaxCompras == 2

(***************************************************************************)
(* Functions on the store.  Each returns the committed database after its  *)
(* conn.close() and the messagebox call it made ("exception" when it       *)
(* raised instead).                                                        *)
(***************************************************************************)
\* the insert on a table whose nome column is not UNIQUE
add_produto_sem_unique(d, nome, categoria, unidade) ==
    [db |-> [d EXCEPT !.insumos = @ \cup {[id |-> d.insumos_seq + 1,
                          nome |-> nome, categoria |-> categoria,
                          unidade |-> unidade, estoque_qtd |-> Zero,
                          custo_medio |-> Zero]},
                      !.insumos_seq = @ + 1],
     msg |-> "showinfo"]

add_produto(d, nome, categoria, unidade) ==
    LET c == get_conn(d)
        novo == [id |-> c.tx.insumos_seq + 1, nome |-> nome,
                 categoria |-> categoria, unidade |-> unidade,
                 estoque_qtd |-> Zero, custo_medio |-> Zero]
        c1 == [c EXCEPT !.tx.insumos = @ \cup {novo}, !.tx.insumos_seq = @ + 1]
    IN  IF \E i \in c.tx.insumos : i.nome = nome
        THEN [db |-> conn_close(c), msg |-> "showwarning"]
        ELSE [db |-> conn_close(conn_commit(c1)),
              msg |-> "showinfo"]

\* an edit that writes the whole row, stock and cost back at their defaults
update_insumo_db_zera_estoque(d, insumo_id, nome, categoria, unidade) ==
    LET upd(i) == IF i.id = insumo_id
                  THEN [id |-> i.id, nome |-> nome, categoria |-> categoria,
                        unidade |-> unidade, estoque_qtd |-> Zero,
                        custo_medio |-> Zero]
                  ELSE i
    IN  IF \E i, j \in d.insumos :
               i.id = insumo_id /\ j.id # insumo_id /\ j.nome = nome
        THEN [db |-> d, msg |-> "showwarning"]
        ELSE [db |-> [d EXCEPT !.insumos = {upd(i) : i \in @}],
              msg |-> "showinfo"]

update_insumo_db(d, insumo_id, nome, categoria, unidade) ==
    LET c == get_conn(d)
        upd(i) == IF i.id = insumo_id
                  THEN [i EXCEPT !.nome = nome, !.categoria = categoria,
                                 !.unidade = unidade]
                  ELSE i
        c1 == [c EXCEPT !.tx.insumos = {upd(i) : i \in @}]
        alvo == \E i \in c.tx.insumos : i.id = insumo_id
        dup == \E i \in c.tx.insumos : i.id # insumo_id /\ i.nome = nome
    IN  IF alvo /\ dup
        THEN [db |-> conn_close(c), msg |-> "showwarning"]
        ELSE [db |-> conn_close(conn_commit(c1)), msg |-> "showinfo"]

\* a deletion that takes the purchase records of the ingredient's name along
delete_insumo_db_em_cascata(d, insumo_id) ==
    LET alvo == {i \in d.insumos : i.id = insumo_id}
    IN  [db |-> [d EXCEPT !.insumos = @ \ alvo,
                          !.compras = {x \in @ : \A i \in alvo : i.nome # x.nome}],
         msg |-> "showinfo"]

delete_insumo_db(d, insumo_id) ==
    LET c == get_conn(d)
        c1 == [c EXCEPT !.tx.insumos = {i \in @ : i.id # insumo_id}]
    IN  [db |-> conn_close(conn_commit(c1)), msg |-> "showinfo"]

\* the stock replaced by the purchased quantity instead of raised by it
novo_estoque_substituido(est_ant, qtd) == qtd

\* novo_estoque of line 193
novo_estoque_de(est_ant, qtd) == RAdd(est_ant, qtd)

\* the plain mean of the old and the new price
custo_medio_simples(est_ant, custo_ant, qtd, custo_novo) ==
    RDiv(RAdd(custo_ant, custo_novo), R(2))

\* the weighted average of lines 188-197
custo_medio_ponderado(est_ant, custo_ant, qtd, custo_novo) ==
    LET novo_estoque == novo_estoque_de(est_ant, qtd)
    IN  IF RLt(Zero, novo_estoque)
        THEN RDiv(RAdd(RMul(est_ant, custo_ant), RMul(qtd, custo_novo)),
                  novo_estoque)
        ELSE custo_novo

\* the new row with quantity and price in each other's column
insumo_novo_trocado(id, nome, quantidade, preco_unit) ==
    [id |-> id, nome |-> nome, categoria |-> "", unidade |-> "un",
     estoque_qtd |-> preco_unit, custo_medio |-> quantidade]

\* the row of lines 182-185 for a name that has none
insumo_novo(id, nome, quantidade, preco_unit) ==
    [id |-> id, nome |-> nome, categoria |-> "", unidade |-> "un",
     estoque_qtd |-> quantidade, custo_medio |-> preco_unit]

\* the purchase row priced with the amount paid for the whole lot
compra_nova_com_total(id, nome, quantidade, preco_unit) ==
    [id |-> id, nome |-> nome, quantidade |-> quantidade,
     preco |-> RMul(quantidade, preco_unit)]

\* the purchase row of lines 173-176
compra_nova(id, nome, quantidade, preco_unit) ==
    [id |-> id, nome |-> nome, quantidade |-> quantidade, preco |-> preco_unit]

\* float(x or 0) on a fetched REAL cell: NULL reads as 0
float_or_0(x) == IF x = NaN THEN Zero ELSE x

\* `falha' names the statement at which the storage layer fails ("" none)
registrar_compra_db(d, nome, quantidade, preco_unit, falha) ==
    LET c == get_conn(d)
        compra == compra_nova(c.tx.compras_seq + 1, nome, quantidade, preco_unit)
        c1 == [c EXCEPT !.tx.compras = @ \cup {compra}, !.tx.compras_seq = @ + 1]
        rows == {i \in c1.tx.insumos : i.nome = nome}
        novo == insumo_novo(c1.tx.insumos_seq + 1, nome, quantidade, preco_unit)
        upd(i) == IF i.nome = nome
                  THEN [i EXCEPT
                         !.estoque_qtd = novo_estoque_de(
                             float_or_0(i.estoque_qtd), quantidade),
                         !.custo_medio = custo_medio_ponderado(
                             float_or_0(i.estoque_qtd), float_or_0(i.custo_medio),
                             quantidade, preco_unit)]
                  ELSE i
        c2 == IF rows = {}
              THEN [c1 EXCEPT !.tx.insumos = @ \cup {novo},
                              !.tx.insumos_seq = @ + 1]
              ELSE [c1 EXCEPT !.tx.insumos = {upd(i) : i \in @}]
    IN  IF ~IsNum(preco_unit) \/ falha = "compras"
        THEN [db |-> conn_close(c), msg |-> "exception"]
        ELSE IF ~IsNum(quantidade) \/ falha = "insumos"
        THEN [db |-> conn_close(c1), msg |-> "exception"]
        ELSE IF falha = "commit"
        THEN [db |-> conn_close(c2), msg |-> "exception"]
        ELSE [db |-> conn_close(conn_commit(c2)),
              msg |-> "showinfo"]

\* a deletion that takes the purchased quantity back out of the stock
delete_compra_db_com_estorno(d, compra_id) ==
    LET alvo == {x \in d.compras : x.id = compra_id}
        estorno(i) ==
            IF \E x \in alvo : x.nome = i.nome
            THEN [i EXCEPT !.estoque_qtd =
                     RSub(@, (CHOOSE x \in alvo : TRUE).quantidade)]
            ELSE i
    IN  [db |-> [d EXCEPT !.compras = @ \ alvo,
                          !.insumos = {estorno(i) : i \in @}],
         msg |-> "showinfo"]

delete_compra_db(d, compra_id) ==
    LET c == get_conn(d)
        c1 == [c EXCEPT !.tx.compras = {x \in @ : x.id # compra_id}]
    IN  [db |-> conn_close(conn_commit(c1)), msg |-> "showinfo"]


(***************************************************************************)
(* Recipes and sales.                                                      *)
(***************************************************************************)
\* connections that leave SQLite's default, foreign keys not enforced
foreign_keys_off == FALSE

\* PRAGMA foreign_keys = ON, set on every connection
foreign_keys == TRUE

add_receita(d, nome, preco_venda) ==
    LET c == get_conn(d)
        nova == [id |-> c.tx.receitas_seq + 1, nome |-> nome,
                 preco_venda |-> preco_venda]
        c1 == [c EXCEPT !.tx.receitas = @ \cup {nova}, !.tx.receitas_seq = @ + 1]
    IN  IF \E r \in c.tx.receitas : r.nome = nome
        THEN [db |-> conn_close(c), msg |-> "showwarning"]
        ELSE [db |-> conn_close(conn_commit(c1)), msg |-> "showinfo"]

update_receita_db(d, receita_id, nome, preco_venda) ==
    LET c == get_conn(d)
        upd(r) == IF r.id = receita_id
                  THEN [r EXCEPT !.nome = nome, !.preco_venda = preco_venda]
                  ELSE r
        c1 == [c EXCEPT !.tx.receitas = {upd(r) : r \in @}]
        alvo == \E r \in c.tx.receitas : r.id = receita_id
        dup == \E r \in c.tx.receitas : r.id # receita_id /\ r.nome = nome
    IN  IF alvo /\ dup
        THEN [db |-> conn_close(c), msg |-> "showwarning"]
        ELSE [db |-> conn_close(conn_commit(c1)), msg |-> "showinfo"]

\* ON DELETE CASCADE of vendas.receita_id acts when foreign keys are enforced
delete_receita_db(d, receita_id) ==
    LET c == get_conn(d)
        c1 == [c EXCEPT !.tx.receitas = {r \in @ : r.id # receita_id},
                        !.tx.vendas = IF foreign_keys
                                      THEN {v \in @ : v.receita_id # receita_id}
                                      ELSE @]
    IN  [db |-> conn_close(conn_commit(c1)), msg |-> "showinfo"]

\* the fee fraction itself taken off the gross total
lucro_liquido_menos_fracao(total_bruto, taxa_plataforma, custo_total) ==
    RSub(RSub(total_bruto, taxa_plataforma), custo_total)

\* lines 275-276
lucro_liquido_de(total_bruto, taxa_plataforma, custo_total) ==
    LET desp_plataforma == RMul(total_bruto, taxa_plataforma)
    IN  RSub(RSub(total_bruto, desp_plataforma), custo_total)

\* a recorder that takes the sold quantity out of every ingredient's stock
registrar_venda_com_baixa(d, receita_id, quantidade, preco_unit, taxa_plataforma, agora) ==
    LET total_bruto == RMul(preco_unit, R(quantidade))
        venda == [id |-> d.vendas_seq + 1, receita_id |-> receita_id,
                  quantidade |-> quantidade, preco_unit |-> preco_unit,
                  taxa_plataforma |-> taxa_plataforma,
                  total_bruto |-> total_bruto, custo_total |-> Zero,
                  lucro_liquido |-> lucro_liquido_de(total_bruto,
                                                     taxa_plataforma, Zero),
                  data |-> agora]
        baixa(i) == [i EXCEPT !.estoque_qtd = RSub(@, R(quantidade))]
    IN  IF \A r \in d.receitas : r.id # receita_id
        THEN [db |-> d, msg |-> "exception"]
        ELSE [db |-> [d EXCEPT !.vendas = @ \cup {venda}, !.vendas_seq = @ + 1,
                               !.insumos = {baixa(i) : i \in @}],
              msg |-> "showinfo"]

registrar_venda(d, receita_id, quantidade, preco_unit, taxa_plataforma, agora) ==
    LET c == get_conn(d)
        total_bruto == RMul(preco_unit, R(quantidade))
        custo_total == Zero
        lucro_liquido == lucro_liquido_de(total_bruto, taxa_plataforma, custo_total)
        venda == [id |-> c.tx.vendas_seq + 1, receita_id |-> receita_id,
                  quantidade |-> quantidade, preco_unit |-> preco_unit,
                  taxa_plataforma |-> taxa_plataforma,
                  total_bruto |-> total_bruto, custo_total |-> custo_total,
                  lucro_liquido |-> lucro_liquido, data |-> agora]
        c1 == [c EXCEPT !.tx.vendas = @ \cup {venda}, !.tx.vendas_seq = @ + 1]
    IN  IF foreign_keys /\ ~\E r \in c.tx.receitas : r.id = receita_id
        THEN [db |-> conn_close(c), msg |-> "exception"]
        ELSE [db |-> conn_close(conn_commit(c1)),
              msg |-> "showinfo"]

delete_venda_db(d, venda_id) ==
    LET c == get_conn(d)
        c1 == [c EXCEPT !.tx.vendas = {v \in @ : v.id # venda_id}]
    IN  [db |-> conn_close(conn_commit(c1)), msg |-> "showinfo"]

\* listar_vendas: the sales joined to their recipe
listar_vendas(d) ==
    {v.id : v \in {x \in d.vendas : \E r \in d.receitas : r.id = x.receita_id}}

(***************************************************************************)
(* Users.                                                                  *)
(***************************************************************************)
\* the password kept as it was typed
_hash_pwd_texto_puro(pwd) == pwd

\* hashlib.sha256(pwd.encode("utf-8")).hexdigest(), on the texts the model
\* hashes: the passwords typed and the two digests a table can hold
_hash_pwd(pwd) ==
    CASE pwd = "admin" ->
           "8c6976e5b5410415bde908bd4dee15dfb167a9c873fc4bb8a81f6f2ab448a918"
      [] pwd = "1234" ->
           "03ac674216f3e15c761ee1a5e255f067953623c8b388b4459e13f978d7c846f4"
      [] pwd = "" ->
           "e3b0c44298fc1c149afbf4c8996fb92427ae41e4649b934ca495991b7852b855"
      [] pwd = "8c6976e5b5410415bde908bd4dee15dfb167a9c873fc4bb8a81f6f2ab448a918" ->
           "998ed4d621742d0c2d85ed84173db569afa194d4597686cae947324aa58ab4bb"
      [] pwd = "03ac674216f3e15c761ee1a5e255f067953623c8b388b4459e13f978d7c846f4" ->
           "756bc47cb5215dc3329ca7e1f7be33a2dad68990bb94b76d90aa07f4e44a233a"

\* init_db on a file whose tables exist or not: CREATE TABLE IF NOT EXISTS
\* leaves existing rows, and the default user is inserted into an empty
\* usuarios table
init_db(d) ==
    LET c == get_conn(d)
        padrao == [id |-> c.tx.usuarios_seq + 1, username |-> "admin",
                   password_hash |-> _hash_pwd("admin")]
        c1 == IF c.tx.usuarios = {}
              THEN [c EXCEPT !.tx.usuarios = {padrao}, !.tx.usuarios_seq = @ + 1]
              ELSE c
    IN  conn_close(conn_commit(c1))

verify_user(d, username, password) ==
    LET c == get_conn(d)
        rows == {u \in c.tx.usuarios : u.username = username}
    IN  IF rows = {} THEN FALSE
        ELSE (CHOOSE u \in rows : TRUE).password_hash = _hash_pwd(password)

(***************************************************************************)
(* Reports.                                                                *)
(***************************************************************************)
SegundosPorDia == 86400

\* None as a window bound
None == [dia |-> -1, seg |-> -1]

\* <= in the place of <
TsLt_inclusivo(a, b) == a.dia < b.dia \/ (a.dia = b.dia /\ a.seg <= b.seg)

\* datetime(a) < datetime(b), datetime(a) >= datetime(b) on well-formed stamps
TsLt(a, b) == a.dia < b.dia \/ (a.dia = b.dia /\ a.seg < b.seg)

\* < in the place of >=
TsGe_invertido(a, b) == TsLt(a, b)

TsGe(a, b) == ~TsLt(a, b)

\* the time of day kept where the format puts 00:00:00
DayStart_sem_truncar(t, days) == [dia |-> t.dia + days, seg |-> t.seg]

\* (now + timedelta(days)).strftime("%Y-%m-%d 00:00:00")
DayStart(t, days) == [dia |-> t.dia + days, seg |-> 0]

\* SQL SUM over the chosen rows: <<>> is NULL (no row), <<s>> the sum s
RECURSIVE SqlSumInt(_, _)
SqlSumInt(rows, col) ==
    IF rows = {} THEN <<>>
    ELSE LET r == CHOOSE x \in rows : TRUE
             rest == SqlSumInt(rows \ {r}, col)
         IN  IF rest = <<>> THEN <<r[col]>> ELSE <<rest[1] + r[col]>>

RECURSIVE SqlSumReal(_, _)
SqlSumReal(rows, col) ==
    IF rows = {} THEN <<>>
    ELSE LET r == CHOOSE x \in rows : TRUE
             rest == SqlSumReal(rows \ {r}, col)
         IN  IF rest = <<>> THEN <<r[col]>> ELSE <<RAdd(rest[1], r[col])>>

\* Python `cell or default' on a fetched cell
PyOr(cell, default) == IF cell = <<>> THEN default ELSE cell[1]

_agg_vendas(d, dt_ini, dt_fim) ==
    LET rows == {v \in d.vendas :
                    /\ (dt_ini # None => TsGe(v.data, dt_ini))
                    /\ (dt_fim # None => TsLt(v.data, dt_fim))}
        row == <<Cardinality(rows), SqlSumInt(rows, "quantidade"),
                 SqlSumReal(rows, "total_bruto"),
                 SqlSumReal(rows, "lucro_liquido")>>
    IN  <<row[1], PyOr(row[2], 0), PyOr(row[3], Zero), PyOr(row[4], Zero)>>

\* fmt_money: the amount rounded to two decimals, as a number of cents
fmt_money(val) ==
    LET n == 100 * val[1]
        q == n \div val[2]
        rem == n % val[2]
    IN  IF 2 * rem < val[2] THEN q
        ELSE IF 2 * rem > val[2] THEN q + 1
        ELSE IF q % 2 = 0 THEN q ELSE q + 1

\* one line of the report: Vendas, Itens, Fat, Lucro
Linha(c) == <<c[1], c[2], fmt_money(c[3]), fmt_money(c[4])>>

load_relatorios_data(d, agora) ==
    LET hoje_ini == DayStart(agora, 0)
        amanha_ini == DayStart(agora, 1)
        d7_ini == DayStart(agora, -6)
        d30_ini == DayStart(agora, -29)
    IN  [hoje |-> Linha(_agg_vendas(d, hoje_ini, amanha_ini)),
         d7 |-> Linha(_agg_vendas(d, d7_ini, amanha_ini)),
         d30 |-> Linha(_agg_vendas(d, d30_ini, amanha_ini)),
         geral |-> Linha(_agg_vendas(d, None, None))]


(***************************************************************************)
(* The application: its state after construction on a new database, and    *)
(* one action per handler.  tree_insumos, tree_compras and the combobox    *)
(* values are reloaded by every handler that changes their table, so a     *)
(* row selected in them is a row of the table.  The edit dialogs are not   *)
(* modal: the id they hold may have been deleted since they were opened.   *)
(***************************************************************************)
VndQtdInputs == {NaN, R(0), R(4)}
VndPrecoInputs == {R(0), R(10)}
TaxaInputs == {NaN, R(-1), Rat(12, 100), R(12), R(150)}
RecPrecoInputs == {NaN, R(0), R(10)}

\* recipe rows ever inserted
MaxReceitas == 2
\* sale rows ever inserted
MaxVendas == 2
\* days the clock runs past the first
MaxDia == 1

\* bravus.db before init_db has run on it
EmptyDb ==
    [insumos |-> {}, insumos_seq |-> 0, compras |-> {}, compras_seq |-> 0,
     receitas |-> {}, receitas_seq |-> 0, vendas |-> {}, vendas_seq |-> 0,
     usuarios |-> {}, usuarios_seq |-> 0]

\* ORDER BY nome
NomeOrd(n) == IF n = "" THEN 0 ELSE IF n = "A" THEN 1 ELSE 2

\* _reload_receitas_combo: an empty combobox variable takes the first recipe
_reload_receitas_combo(d, sel) ==
    IF d.receitas # {} /\ sel = 0
    THEN (CHOOSE r \in d.receitas :
             \A o \in d.receitas : NomeOrd(r.nome) <= NomeOrd(o.nome)).id
    ELSE sel

Init ==
    /\ db = init_db(EmptyDb)
    /\ now = [dia |-> 0, seg |-> 0]
    /\ tree_vendas = {}
    /\ vnd_receita = 0
    /\ rel = load_relatorios_data(EmptyDb, [dia |-> 0, seg |-> 0])
    /\ msg = ""
    /\ call = <<>>
    /\ ret = <<>>

salvar_insumo(nome, categoria, unidade) ==
    /\ IF nome = ""
       THEN /\ db' = db
            /\ msg' = "showwarning"
       ELSE LET res == add_produto(db, nome, categoria, unidade)
            IN  /\ db' = res.db
                /\ msg' = res.msg
    /\ UNCHANGED <<now, ui, call, ret>>

edit_insumo_save(insumo_id, nome_n, cat_n, un_n) ==
    /\ IF nome_n = ""
       THEN /\ db' = db
            /\ msg' = "showwarning"
       ELSE LET res == update_insumo_db(db, insumo_id, nome_n, cat_n,
                                        IF un_n = "" THEN "un" ELSE un_n)
            IN  /\ db' = res.db
                /\ msg' = res.msg
    /\ UNCHANGED <<now, ui, call, ret>>

delete_insumo_selected(insumo_id) ==
    LET res == delete_insumo_db(db, insumo_id)
    IN  /\ db' = res.db
        /\ msg' = res.msg
        /\ UNCHANGED <<now, ui, call, ret>>

_registrar_compra(nome, qtd, preco, falha) ==
    /\ IF ~IsNum(qtd) \/ ~IsNum(preco)
       THEN /\ db' = db
            /\ msg' = "showwarning"
       ELSE IF nome = "" \/ RLe(qtd, Zero) \/ RLe(preco, Zero)
       THEN /\ db' = db
            /\ msg' = "showwarning"
       ELSE LET res == registrar_compra_db(db, nome, qtd, preco, falha)
            IN  /\ db' = res.db
                /\ msg' = res.msg
    /\ UNCHANGED <<now, ui, call, ret>>

delete_compra_selected(compra_id) ==
    LET res == delete_compra_db(db, compra_id)
    IN  /\ db' = res.db
        /\ msg' = res.msg
        /\ UNCHANGED <<now, ui, call, ret>>

_salvar_receita(nome, preco) ==
    /\ IF ~IsNum(preco)
       THEN /\ UNCHANGED <<db, vnd_receita>>
            /\ msg' = "showwarning"
       ELSE IF nome = "" \/ RLe(preco, Zero)
       THEN /\ UNCHANGED <<db, vnd_receita>>
            /\ msg' = "showwarning"
       ELSE LET res == add_receita(db, nome, preco)
            IN  /\ db' = res.db
                /\ vnd_receita' = _reload_receitas_combo(res.db, vnd_receita)
                /\ msg' = res.msg
    /\ UNCHANGED <<now, tree_vendas, rel, call, ret>>

edit_receita_save(receita_id, nome_n, preco_n) ==
    /\ IF ~IsNum(preco_n)
       THEN /\ UNCHANGED <<db, vnd_receita>>
            /\ msg' = "showwarning"
       ELSE IF nome_n = "" \/ RLe(preco_n, Zero)
       THEN /\ UNCHANGED <<db, vnd_receita>>
            /\ msg' = "showwarning"
       ELSE LET res == update_receita_db(db, receita_id, nome_n, preco_n)
            IN  /\ db' = res.db
                /\ vnd_receita' = _reload_receitas_combo(res.db, vnd_receita)
                /\ msg' = res.msg
    /\ UNCHANGED <<now, tree_vendas, rel, call, ret>>

\* reloads the recipe table and the combobox, not the sales table or the report
delete_receita_selected(receita_id) ==
    LET res == delete_receita_db(db, receita_id)
    IN  /\ db' = res.db
        /\ vnd_receita' = _reload_receitas_combo(res.db, vnd_receita)
        /\ msg' = res.msg
        /\ UNCHANGED <<now, tree_vendas, rel, call, ret>>

\* <<ComboboxSelected>>: the user picks one of the listed recipes
_on_receita_selected(receita_id) ==
    /\ vnd_receita' = receita_id
    /\ msg' = ""
    /\ UNCHANGED <<db, now, tree_vendas, rel, call, ret>>

\* the fee as _registrar_venda passes it on: a value above 1 is a percentage
taxa_de(taxa_in) == IF RLt(R(1), taxa_in) THEN RDiv(taxa_in, R(100)) ELSE taxa_in

_registrar_venda(qtd, preco, taxa_in) ==
    /\ IF vnd_receita = 0
       THEN /\ UNCHANGED <<db, tree_vendas, rel>>
            /\ msg' = "showwarning"
       ELSE IF \/ ~IsInt(qtd) \/ ~IsNum(preco) \/ ~IsNum(taxa_in)
               \/ RLe(qtd, Zero) \/ RLe(preco, Zero)
               \/ RLt(taxa_de(taxa_in), Zero)
       THEN /\ UNCHANGED <<db, tree_vendas, rel>>
            /\ msg' = "showwarning"
       ELSE LET res == registrar_venda(db, vnd_receita, qtd[1], preco,
                                       taxa_de(taxa_in), now)
            IN  /\ db' = res.db
                /\ msg' = res.msg
                /\ IF res.msg = "exception"
                   THEN UNCHANGED <<tree_vendas, rel>>
                   ELSE /\ tree_vendas' = listar_vendas(res.db)
                        /\ rel' = load_relatorios_data(res.db, now)
    /\ UNCHANGED <<now, vnd_receita, call, ret>>

\* the Recarregar button of the sales tab
load_vendas ==
    /\ tree_vendas' = listar_vendas(db)
    /\ msg' = ""
    /\ UNCHANGED <<db, now, vnd_receita, rel, call, ret>>

delete_venda_selected(venda_id) ==
    LET res == delete_venda_db(db, venda_id)
    IN  /\ db' = res.db
        /\ tree_vendas' = listar_vendas(res.db)
        /\ rel' = load_relatorios_data(res.db, now)
        /\ msg' = res.msg
        /\ UNCHANGED <<now, vnd_receita, call, ret>>

\* the clock is watched at midnight: it runs on to the start of the next day
Tick ==
    /\ now' = [dia |-> now.dia + 1, seg |-> 0]
    /\ UNCHANGED <<db, ui, msg, call, ret>>

\* the handlers, run while the tables and the clock are within the bounds
NextEstoque ==
    \/ /\ db.insumos_seq < MaxInsumos
       /\ \E n \in NomeInputs, c \in CategoriaInputs, u \in UnidadeInputs :
             salvar_insumo(n, c, u)
    \/ \E id \in 1..db.insumos_seq, n \in NomeInputs, c \in CategoriaInputs,
          u \in UnidadeInputs \cup {""} :
          edit_insumo_save(id, n, c, u)
    \/ \E i \in db.insumos : delete_insumo_selected(i.id)
    \/ /\ db.compras_seq < MaxCompras
       /\ \E n \in NomeInputs, q \in QtdInputs, p \in PrecoInputs, f \in Falhas :
             /\ db.insumos_seq < MaxInsumos \/ \E i \in db.insumos : i.nome = n
             /\ _registrar_compra(n, q, p, f)
    \/ \E x \in db.compras : delete_compra_selected(x.id)

NextVendas ==
    \/ /\ db.receitas_seq < MaxReceitas
       /\ \E n \in NomeInputs, p \in RecPrecoInputs : _salvar_receita(n, p)
    \/ \E id \in 1..db.receitas_seq, n \in NomeInputs, p \in RecPrecoInputs :
          edit_receita_save(id, n, p)
    \/ \E r \in db.receitas : delete_receita_selected(r.id)
    \/ \E r \in db.receitas : _on_receita_selected(r.id)
    \/ /\ \/ db.vendas_seq < MaxVendas
          \/ \A r \in db.receitas : r.id # vnd_receita
       /\ \E q \in VndQtdInputs, p \in VndPrecoInputs, t \in TaxaInputs :
             _registrar_venda(q, p, t)
    \/ load_vendas
    \/ \E id \in tree_vendas : delete_venda_selected(id)
    \/ /\ now.dia < MaxDia
       /\ Tick

Next == NextEstoque \/ NextVendas

Spec == Init /\ [][Next]_vars
SpecEstoque == Init /\ [][NextEstoque]_vars
SpecVendas == Init /\ [][NextVendas]_vars

(***************************************************************************)
(* The purchase form driven with every kind of text float() and Decimal()  *)
(* take or refuse, "inf" included, on one ingredient name.                 *)
(***************************************************************************)
FormNomes == {"A", ""}
FormQtd == {NaN, R(0), R(-15), R(10), Inf}
FormPreco == {NaN, R(0), R(-5), R(5), R(10)}

NextFormulario ==
    \/ /\ db.insumos_seq < MaxInsumos
       /\ \E n \in FormNomes, c \in CategoriaInputs, u \in UnidadeInputs :
             salvar_insumo(n, c, u)
    \/ \E id \in 1..db.insumos_seq, n \in FormNomes, c \in CategoriaInputs,
          u \in UnidadeInputs \cup {""} :
          edit_insumo_save(id, n, c, u)
    \/ \E i \in db.insumos : delete_insumo_selected(i.id)
    \/ /\ db.compras_seq < MaxCompras
       /\ \E n \in FormNomes, q \in FormQtd, p \in FormPreco :
             /\ db.insumos_seq < MaxInsumos \/ \E i \in db.insumos : i.nome = n
             /\ _registrar_compra(n, q, p, "")
    \/ \E x \in db.compras : delete_compra_selected(x.id)

SpecFormulario == Init /\ [][NextFormulario]_vars

(***************************************************************************)
(* The ledger called directly: add_produto and registrar_compra_db with    *)
(* quantities and prices that meet its precondition (> 0).                 *)
(***************************************************************************)
LoteQtd == {Rat(1, 2), R(5), R(10)}
LotePreco == {R(5), R(10)}
\* purchases made in a run of the ledger
MaxLote == 3

chamar_add_produto(nome, categoria, unidade) ==
    LET res == add_produto(db, nome, categoria, unidade)
    IN  /\ db' = res.db
        /\ msg' = res.msg
        /\ UNCHANGED <<now, ui, call, ret>>

chamar_registrar_compra_db(nome, quantidade, preco_unit, falha) ==
    LET res == registrar_compra_db(db, nome, quantidade, preco_unit, falha)
    IN  /\ db' = res.db
        /\ msg' = res.msg
        /\ UNCHANGED <<now, ui, call, ret>>

NextLedger ==
    \/ /\ db.insumos_seq < MaxInsumos
       /\ \E n \in Nomes, c \in CategoriaInputs, u \in UnidadeInputs :
             chamar_add_produto(n, c, u)
    \/ /\ db.compras_seq < MaxLote
       /\ \E n \in Nomes, q \in LoteQtd, p \in LotePreco, f \in Falhas :
             chamar_registrar_compra_db(n, q, p, f)

SpecLedger == Init /\ [][NextLedger]_vars

(***************************************************************************)
(* The sales recorder called directly.                                     *)
(***************************************************************************)
RecQtd == {1, 4}
RecPreco == {R(10)}
RecTaxa == {Rat(12, 100), R(15)}

chamar_add_receita(nome, preco_venda) ==
    LET res == add_receita(db, nome, preco_venda)
    IN  /\ db' = res.db
        /\ msg' = res.msg
        /\ call' = <<>>
        /\ UNCHANGED <<now, ui, ret>>

chamar_registrar_venda(receita_id, quantidade, preco_unit, taxa_plataforma) ==
    LET res == registrar_venda(db, receita_id, quantidade, preco_unit,
                               taxa_plataforma, now)
    IN  /\ db' = res.db
        /\ msg' = res.msg
        /\ call' = <<receita_id, quantidade, preco_unit, taxa_plataforma>>
        /\ UNCHANGED <<now, ui, ret>>

NextRecorder ==
    \/ /\ db.receitas_seq < MaxReceitas
       /\ \E n \in Nomes, p \in RecPreco : chamar_add_receita(n, p)
    \/ /\ db.vendas_seq < MaxVendas
       /\ \E r \in 1..MaxReceitas, q \in RecQtd, p \in RecPreco, t \in RecTaxa :
             chamar_registrar_venda(r, q, p, t)

SpecRecorder == Init /\ [][NextRecorder]_vars

(***************************************************************************)
(* The catalogue called directly: ingredients and recipes are created,     *)
(* renamed and deleted, and a purchase creates the ingredient it names.    *)
(***************************************************************************)
CatQtd == {R(10)}
CatPreco == {R(5)}
CatRecPreco == {R(10), R(12)}

chamar_update_insumo_db(insumo_id, nome, categoria, unidade) ==
    LET res == update_insumo_db(db, insumo_id, nome, categoria, unidade)
    IN  /\ db' = res.db
        /\ msg' = res.msg
        /\ UNCHANGED <<now, ui, call, ret>>

chamar_delete_insumo_db(insumo_id) ==
    LET res == delete_insumo_db(db, insumo_id)
    IN  /\ db' = res.db
        /\ msg' = res.msg
        /\ UNCHANGED <<now, ui, call, ret>>

chamar_update_receita_db(receita_id, nome, preco_venda) ==
    LET res == update_receita_db(db, receita_id, nome, preco_venda)
    IN  /\ db' = res.db
        /\ msg' = res.msg
        /\ UNCHANGED <<now, ui, call, ret>>

chamar_delete_receita_db(receita_id) ==
    LET res == delete_receita_db(db, receita_id)
    IN  /\ db' = res.db
        /\ msg' = res.msg
        /\ UNCHANGED <<now, ui, call, ret>>

NextCatalogo ==
    \/ \E n \in Nomes, c \in CategoriaInputs, u \in UnidadeInputs :
          /\ db.insumos_seq < MaxInsumos \/ \E i \in db.insumos : i.nome = n
          /\ chamar_add_produto(n, c, u)
    \/ \E id \in 1..db.insumos_seq, n \in Nomes, c \in CategoriaInputs,
          u \in UnidadeInputs :
          chamar_update_insumo_db(id, n, c, u)
    \/ \E id \in 1..db.insumos_seq : chamar_delete_insumo_db(id)
    \/ /\ db.compras_seq < MaxCompras
       /\ \E n \in Nomes, q \in CatQtd, p \in CatPreco :
             /\ db.insumos_seq < MaxInsumos \/ \E i \in db.insumos : i.nome = n
             /\ chamar_registrar_compra_db(n, q, p, "")
    \/ \E n \in Nomes, p \in CatRecPreco :
          /\ db.receitas_seq < MaxReceitas \/ \E r \in db.receitas : r.nome = n
          /\ chamar_add_receita(n, p)
    \/ \E id \in 1..db.receitas_seq, n \in Nomes, p \in CatRecPreco :
          chamar_update_receita_db(id, n, p)
    \/ \E id \in 1..db.receitas_seq : chamar_delete_receita_db(id)

SpecCatalogo == Init /\ [][NextCatalogo]_vars

(***************************************************************************)
(* The ledger and the ingredient catalogue called directly.                *)
(***************************************************************************)
LivroQtd == {R(10)}
LivroPreco == {R(5), R(10)}
LivroCategoria == {"graos"}
LivroUnidade == {"g"}

chamar_delete_compra_db(compra_id) ==
    LET res == delete_compra_db(db, compra_id)
    IN  /\ db' = res.db
        /\ msg' = res.msg
        /\ UNCHANGED <<now, ui, call, ret>>

NextLivro ==
    \/ /\ db.insumos_seq < MaxInsumos
       /\ \E n \in Nomes, c \in CategoriaInputs, u \in UnidadeInputs :
             chamar_add_produto(n, c, u)
    \/ \E id \in 1..db.insumos_seq, n \in Nomes, c \in LivroCategoria,
          u \in LivroUnidade :
          chamar_update_insumo_db(id, n, c, u)
    \/ \E id \in 1..db.insumos_seq : chamar_delete_insumo_db(id)
    \/ /\ db.compras_seq < MaxCompras
       /\ \E n \in Nomes, q \in LivroQtd, p \in LivroPreco :
             /\ db.insumos_seq < MaxInsumos \/ \E i \in db.insumos : i.nome = n
             /\ chamar_registrar_compra_db(n, q, p, "")
    \/ \E id \in 1..db.compras_seq : chamar_delete_compra_db(id)

SpecLivro == Init /\ [][NextLivro]_vars

(***************************************************************************)
(* The ledger called directly with quantities inside and outside its       *)
(* precondition.                                                           *)
(***************************************************************************)
ForaQtd == {R(-15), R(0), R(10)}

NextFora ==
    \/ /\ db.insumos_seq < MaxInsumos
       /\ \E n \in Nomes, c \in CategoriaInputs, u \in UnidadeInputs :
             chamar_add_produto(n, c, u)
    \/ /\ db.compras_seq < MaxCompras
       /\ \E n \in Nomes, q \in ForaQtd, p \in CatPreco :
             /\ db.insumos_seq < MaxInsumos \/ \E i \in db.insumos : i.nome = n
             /\ chamar_registrar_compra_db(n, q, p, "")

SpecFora == Init /\ [][NextFora]_vars

(***************************************************************************)
(* The recorder called directly on a store that holds ingredients and      *)
(* purchases.                                                              *)
(***************************************************************************)
NextBalcao ==
    \/ /\ db.insumos_seq < MaxInsumos
       /\ \E n \in Nomes, c \in CategoriaInputs, u \in UnidadeInputs :
             chamar_add_produto(n, c, u)
    \/ /\ db.compras_seq < MaxCompras
       /\ \E n \in Nomes, q \in CatQtd, p \in CatPreco :
             /\ db.insumos_seq < MaxInsumos \/ \E i \in db.insumos : i.nome = n
             /\ chamar_registrar_compra_db(n, q, p, "")
    \/ /\ db.receitas_seq < MaxReceitas
       /\ \E n \in Nomes, p \in RecPreco : chamar_add_receita(n, p)
    \/ /\ db.vendas_seq < MaxVendas
       /\ \E r \in 1..MaxReceitas, q \in RecQtd, p \in RecPreco :
             chamar_registrar_venda(r, q, p, Rat(12, 100))

SpecBalcao == Init /\ [][NextBalcao]_vars

(***************************************************************************)
(* The login: the program is started on a database file whose usuarios     *)
(* table is empty, or holds users with the default or with another         *)
(* credential (no function of the program writes the table but init_db),   *)
(* init_db runs at every start and verify_user is called.                  *)
(***************************************************************************)
Usuarios == {"admin", "root"}
UsuarioInputs == Usuarios \cup {"guest"}
SenhaInputs == {"admin", "1234", "", _hash_pwd("admin")}
Credenciais == {_hash_pwd("admin"), _hash_pwd("1234")}

\* the usuarios tables: usernames are UNIQUE, ids follow the insertion order
Tabelas ==
    {{[id |-> IF u = "admin" \/ "admin" \notin DOMAIN f THEN 1 ELSE 2,
       username |-> u, password_hash |-> f[u]] : u \in DOMAIN f} :
        f \in UNION {[S -> Credenciais] : S \in SUBSET Usuarios}}

InitLogin ==
    /\ \E T \in Tabelas :
          db = [EmptyDb EXCEPT !.usuarios = T, !.usuarios_seq = Cardinality(T)]
    /\ now = [dia |-> 0, seg |-> 0]
    /\ tree_vendas = {}
    /\ vnd_receita = 0
    /\ rel = load_relatorios_data(EmptyDb, [dia |-> 0, seg |-> 0])
    /\ msg = ""
    /\ call = <<>>
    /\ ret = <<>>

\* the program is started: __main__ runs init_db
chamar_init_db ==
    /\ db' = init_db(db)
    /\ call' = <<>>
    /\ ret' = <<>>
    /\ UNCHANGED <<now, ui, msg>>

chamar_verify_user(username, password) ==
    /\ call' = <<username, password>>
    /\ ret' = verify_user(db, username, password)
    /\ UNCHANGED <<db, now, ui, msg>>

NextLogin ==
    \/ chamar_init_db
    \/ \E u \in UsuarioInputs, p \in SenhaInputs : chamar_verify_user(u, p)

SpecLogin == InitLogin /\ [][NextLogin]_vars

(***************************************************************************)
(* The reports over a database of sales recorded on earlier days: the      *)
(* application is opened on it, and _agg_vendas is called on it.           *)
(***************************************************************************)
\* the day the application is first opened
RefDia == 30
DiasAntes == {0, 1, 6, 7, 29, 30}
Segs == {0, SegundosPorDia - 1}
Instantes == {[dia |-> RefDia - k, seg |-> s] : k \in DiasAntes, s \in Segs}
Limites == {None, DayStart([dia |-> RefDia, seg |-> 0], -6),
            DayStart([dia |-> RefDia, seg |-> 0], 0),
            DayStart([dia |-> RefDia, seg |-> 0], 1)}
Aberturas == {[dia |-> RefDia, seg |-> 0],
              [dia |-> RefDia, seg |-> SegundosPorDia - 1],
              [dia |-> RefDia + 1, seg |-> 0]}

\* the sales of one recipe, recorded in the order `as' gives: as[k] is
\* <<instant, quantity>>
RECURSIVE Vendido(_)
Vendido(as) ==
    IF as = <<>>
    THEN add_receita(init_db(EmptyDb), "A", R(10)).db
    ELSE LET k == Len(as)
         IN  registrar_venda(Vendido(SubSeq(as, 1, k - 1)), 1, as[k][2], R(10),
                             Rat(12, 100), as[k][1]).db

Historicos ==
    {as \in UNION {[1..n -> Instantes \X RecQtd] : n \in 0..MaxVendas} :
        \A k \in 1..(Len(as) - 1) : ~TsLt(as[k + 1][1], as[k][1])}

\* BravusApp.__init__: the tables, the combobox and the report are loaded
abrir(d, agora) ==
    /\ db = d
    /\ now = agora
    /\ tree_vendas = listar_vendas(d)
    /\ vnd_receita = _reload_receitas_combo(d, 0)
    /\ rel = load_relatorios_data(d, agora)
    /\ msg = ""

InitAgg ==
    /\ \E as \in Historicos : abrir(Vendido(as), [dia |-> RefDia, seg |-> 0])
    /\ call = <<>>
    /\ ret = <<>>

\* the application is closed and opened again later
reabrir(agora) ==
    /\ TsLt(now, agora)
    /\ now' = agora
    /\ tree_vendas' = listar_vendas(db)
    /\ vnd_receita' = _reload_receitas_combo(db, 0)
    /\ rel' = load_relatorios_data(db, agora)
    /\ msg' = ""
    /\ UNCHANGED <<db, call, ret>>

chamar_agg_vendas(dt_ini, dt_fim) ==
    /\ call' = <<dt_ini, dt_fim>>
    /\ ret' = _agg_vendas(db, dt_ini, dt_fim)
    /\ UNCHANGED <<db, now, ui, msg>>

NextAgg ==
    \/ \E t \in Aberturas : reabrir(t)
    \/ \E a \in Limites, b \in Limites : chamar_agg_vendas(a, b)

SpecAgg == InitAgg /\ [][NextAgg]_vars


(***************************************************************************)
(* Properties.                                                             *)
(***************************************************************************)
\* purchase records of database d that carry name n
HistoricoDe(d, n) == {x \in d.compras : x.nome = n}

RECURSIVE SomaQtd(_)
SomaQtd(h) ==
    IF h = {} THEN Zero
    ELSE LET x == CHOOSE y \in h : TRUE
         IN  RAdd(x.quantidade, SomaQtd(h \ {x}))

RECURSIVE SomaValor(_)
SomaValor(h) ==
    IF h = {} THEN Zero
    ELSE LET x == CHOOSE y \in h : TRUE
         IN  RAdd(RMul(x.quantidade, x.preco), SomaValor(h \ {x}))

SemInsumo(d, n) == ~\E i \in d.insumos : i.nome = n

\* the step records a purchase under name n
CompraDe(n) ==
    /\ db'.compras_seq = db.compras_seq + 1
    /\ \E x \in db'.compras : x.id = db'.compras_seq /\ x.nome = n

\* C1: when only purchases (and the creation of ingredients with no stock)
\* act on the ledger, every ingredient's stock is the sum of the quantities
\* purchased under its name and its average cost is the sum of
\* quantity * price over the sum of the quantities, whatever the order of the
\* purchases; 10 at 5.00 and 10 at 10.00 give 20 at 7.50.
C1_MediaPonderada ==
    \A i \in db.insumos :
        LET h == HistoricoDe(db, i.nome)
        IN  /\ i.estoque_qtd = SomaQtd(h)
            /\ h # {} => i.custo_medio = RDiv(SomaValor(h), SomaQtd(h))
            /\ ( /\ Cardinality(h) = 2
                 /\ \A x \in h : x.quantidade = R(10)
                 /\ {x.preco : x \in h} = {R(5), R(10)} )
               => i.estoque_qtd = R(20) /\ i.custo_medio = Rat(750, 100)

C1_Witness ==
    \E i \in db.insumos :
        /\ Cardinality(HistoricoDe(db, i.nome)) = 3
        /\ Cardinality({x.quantidade : x \in HistoricoDe(db, i.nome)}) = 3
        /\ {x.preco : x \in HistoricoDe(db, i.nome)} = {R(5), R(10)}

\* ingredient n of database d agrees with the purchase records under n
Coerente(d, n) ==
    \A i \in d.insumos :
        i.nome = n =>
            /\ i.estoque_qtd = SomaQtd(HistoricoDe(d, n))
            /\ RMul(i.estoque_qtd, i.custo_medio) = SomaValor(HistoricoDe(d, n))

\* C2 as claimed: in every state reachable through the handlers, every
\* ingredient's stock and stock * average cost equal the sums over the
\* purchase records under its name.
C2_Original == \A i \in db.insumos : Coerente(db, i.nome)

\* C2 as amended: a purchase keeps an ingredient consistent with the purchase
\* records under its name: if before the purchase the ingredient agrees with
\* them (or does not exist and no record carries its name), it exists and
\* agrees with them after it.
C2_CompraPreservaCoerencia ==
    [][\A n \in Nomes :
          ( /\ CompraDe(n)
            /\ Coerente(db, n)
            /\ SemInsumo(db, n) => HistoricoDe(db, n) = {} )
          => ~SemInsumo(db', n) /\ Coerente(db', n)]_vars

C2_Witness ==
    \E i \in db.insumos :
        /\ Cardinality(HistoricoDe(db, i.nome)) = 2
        /\ Coerente(db, i.nome)
        /\ i.estoque_qtd = R(20)
        /\ i.custo_medio = Rat(750, 100)

\* C3: a purchase under a name no ingredient has adds exactly one ingredient:
\* that name, stock the purchased quantity, average cost the unit price, empty
\* category, unit "un".
C3_PrimeiraCompraCriaInsumo ==
    [][\A n \in Nomes :
          (SemInsumo(db, n) /\ CompraDe(n))
          => \E i \in db'.insumos, x \in db'.compras :
                /\ x.id = db'.compras_seq
                /\ i \notin db.insumos
                /\ db'.insumos = db.insumos \cup {i}
                /\ i.nome = n
                /\ i.estoque_qtd = x.quantidade
                /\ i.custo_medio = x.preco
                /\ i.categoria = ""
                /\ i.unidade = "un"]_vars

C3_Witness ==
    /\ msg = "showinfo"
    /\ \E i \in db.insumos, x \in db.compras :
          /\ db.insumos = {i}
          /\ db.compras = {x}
          /\ db.insumos_seq = 1
          /\ i.nome = x.nome
          /\ i.estoque_qtd = R(10) /\ x.quantidade = R(10)
          /\ i.custo_medio = R(5) /\ x.preco = R(5)
          /\ i.categoria = "" /\ i.unidade = "un"

\* C4: a call of registrar_compra_db that fails before its commit leaves the
\* store as it was: no new purchase record, no ingredient added or changed.
C4_CompraAtomica == [][msg' = "exception" => db' = db]_vars

C4_Witness == msg = "exception" /\ db.compras # {} /\ db.insumos # {}

\* C5: every sale record written by registrar_venda has gross total = unit
\* price * quantity, cost of goods 0 and net profit = gross - gross * fee -
\* cost (4 at 10.00 with fee 0.12: gross 40.00, fee 4.80, net 35.20), and the
\* record of a successful call holds the recipe, quantity, price and fee
\* fraction exactly as passed.
C5_AritmeticaDaVenda ==
    /\ \A v \in db.vendas :
          /\ v.total_bruto = RMul(v.preco_unit, R(v.quantidade))
          /\ v.custo_total = Zero
          /\ v.lucro_liquido =
                RSub(RSub(v.total_bruto, RMul(v.total_bruto, v.taxa_plataforma)),
                     v.custo_total)
          /\ ( v.quantidade = 4 /\ v.preco_unit = R(10)
               /\ v.taxa_plataforma = Rat(12, 100) )
             => /\ v.total_bruto = R(40)
                /\ RMul(v.total_bruto, v.taxa_plataforma) = Rat(480, 100)
                /\ v.lucro_liquido = Rat(3520, 100)
    /\ (call # <<>> /\ msg = "showinfo")
       => \E v \in db.vendas :
             /\ v.id = db.vendas_seq
             /\ <<v.receita_id, v.quantidade, v.preco_unit, v.taxa_plataforma>>
                   = call

C5_Witness ==
    /\ msg = "showinfo"
    /\ call # <<>>
    /\ call[4] = R(15)
    /\ \E v \in db.vendas : v.id = db.vendas_seq /\ v.taxa_plataforma = R(15)
    /\ \E v \in db.vendas :
          /\ v.quantidade = 4 /\ v.preco_unit = R(10)
          /\ v.taxa_plataforma = Rat(12, 100)
          /\ v.lucro_liquido = Rat(3520, 100)

\* C6: every sale stored through the sale form has a fee fraction f with
\* 0 <= f < 1, a positive quantity and a unit price > 0.
C6_VendaValidada ==
    \A v \in db.vendas :
        /\ RLe(Zero, v.taxa_plataforma)
        /\ RLt(v.taxa_plataforma, R(1))
        /\ v.quantidade > 0
        /\ RLt(Zero, v.preco_unit)

\* seconds from the start of day 0
Secs(t) == t.dia * SegundosPorDia + t.seg

RECURSIVE SomaInt(_, _)
SomaInt(S, col) ==
    IF S = {} THEN 0
    ELSE LET v == CHOOSE y \in S : TRUE
         IN  v[col] + SomaInt(S \ {v}, col)

RECURSIVE SomaReal(_, _)
SomaReal(S, col) ==
    IF S = {} THEN Zero
    ELSE LET v == CHOOSE y \in S : TRUE
         IN  RAdd(v[col], SomaReal(S \ {v}, col))

\* sales of the store with lo <= timestamp < hi, in seconds
VendasEm(lo, hi) ==
    {v \in db.vendas : lo <= Secs(v.data) /\ Secs(v.data) < hi}

\* C7: _agg_vendas(start, end) returns the number of the sale records with
\* start <= timestamp < end (an omitted bound does not constrain), the sum of
\* their quantities, of their gross totals and of their net profits; with no
\* such record it returns (0, 0, 0.0, 0.0).
C7_Agregacao ==
    call # <<>> =>
        LET S == {v \in db.vendas :
                     /\ call[1] # None => Secs(call[1]) <= Secs(v.data)
                     /\ call[2] # None => Secs(v.data) < Secs(call[2])}
        IN  /\ ret = <<Cardinality(S), SomaInt(S, "quantidade"),
                       SomaReal(S, "total_bruto"), SomaReal(S, "lucro_liquido")>>
            /\ S = {} => ret = <<0, 0, Zero, Zero>>

C7_Witness ==
    /\ call # <<>>
    /\ call[1] # None
    /\ call[2] # None
    /\ ret[1] = 1
    /\ ret[2] = 4
    /\ Cardinality(db.vendas) = 2
    /\ \E v \in db.vendas : v.data = call[2]
    /\ \E v \in db.vendas : v.data = call[1]

\* C8: in the report loaded at `now', with todayStart the midnight of now,
\* Today counts the sales in [todayStart, todayStart + 1 day), Last 7 days
\* those in [todayStart - 6 days, todayStart + 1 day) and Last 30 days those
\* in [todayStart - 29 days, todayStart + 1 day): a sale at todayStart is in
\* Today, a sale one second earlier is not, but is in Last 7 days.
C8_Janelas ==
    LET dia == SegundosPorDia
        t0 == now.dia * dia
    IN  /\ rel.hoje[1] = Cardinality(VendasEm(t0, t0 + dia))
        /\ rel.hoje[2] = SomaInt(VendasEm(t0, t0 + dia), "quantidade")
        /\ rel.d7[1] = Cardinality(VendasEm(t0 - 6 * dia, t0 + dia))
        /\ rel.d7[2] = SomaInt(VendasEm(t0 - 6 * dia, t0 + dia), "quantidade")
        /\ rel.d30[1] = Cardinality(VendasEm(t0 - 29 * dia, t0 + dia))
        /\ rel.d30[2] = SomaInt(VendasEm(t0 - 29 * dia, t0 + dia), "quantidade")

C8_Witness ==
    /\ \E v \in db.vendas : Secs(v.data) = now.dia * SegundosPorDia
    /\ \E v \in db.vendas : Secs(v.data) = now.dia * SegundosPorDia - 1
    /\ now.seg > 0
    /\ rel.hoje[1] = 1
    /\ rel.d7[1] = 2

\* C9: every handler step that creates or deletes sale records leaves the
\* report showing the aggregation of the sale records as they now are.
C9_RelatorioAtualizado ==
    [][db'.vendas # db.vendas => rel' = load_relatorios_data(db', now')]_vars

\* C10: every sale record references a recipe that exists, and a step that
\* deletes a recipe removes the sales that reference it and no other sale.
C10_VendaTemReceita ==
    /\ [](\A v \in db.vendas : \E r \in db.receitas : r.id = v.receita_id)
    /\ [][\A r \in db.receitas :
             (\A o \in db'.receitas : o.id # r.id)
             => db'.vendas = {v \in db.vendas : v.receita_id # r.id}]_vars

C10_Witness ==
    /\ msg = "exception"
    /\ vnd_receita # 0
    /\ \A r \in db.receitas : r.id # vnd_receita
    /\ db.vendas_seq = 2
    /\ tree_vendas = {1, 2}
    /\ Cardinality(db.vendas) = 1
    /\ Cardinality(db.receitas) = 1
    /\ \A v \in db.vendas : \E r \in db.receitas : r.id = v.receita_id

\* C11: add_produto and add_receita with a name that exists, and
\* update_insumo_db and update_receita_db to a name another row holds, leave
\* the store as it was and show the duplicate-name warning; a step that
\* warns changes nothing, and no two ingredients and no two recipes share a
\* name.
C11_NomeDuplicado ==
    /\ [](/\ \A i, j \in db.insumos : i.nome = j.nome => i = j
          /\ \A r, o \in db.receitas : r.nome = o.nome => r = o
          /\ \A i \in db.insumos, c \in CategoriaInputs, u \in UnidadeInputs :
                /\ add_produto(db, i.nome, c, u)
                     = [db |-> db, msg |-> "showwarning"]
                /\ \A j \in db.insumos \ {i} :
                      update_insumo_db(db, j.id, i.nome, c, u)
                        = [db |-> db, msg |-> "showwarning"]
          /\ \A r \in db.receitas, p \in CatRecPreco :
                /\ add_receita(db, r.nome, p)
                     = [db |-> db, msg |-> "showwarning"]
                /\ \A o \in db.receitas \ {r} :
                      update_receita_db(db, o.id, r.nome, p)
                        = [db |-> db, msg |-> "showwarning"])
    /\ [][msg' = "showwarning" => db' = db]_vars

C11_Witness ==
    /\ msg = "showwarning"
    /\ Cardinality(db.insumos) = 2
    /\ Cardinality(db.receitas) = 2
    /\ db.compras # {}

\* C12: registrar_venda leaves every ingredient and every purchase record as
\* it was, for an existing recipe and for a missing one, and a step that
\* records a sale changes no ingredient and no purchase record.
C12_VendaNaoMexeNoEstoque ==
    /\ [](\A r \in 1..MaxReceitas, q \in RecQtd, p \in RecPreco :
            LET res == registrar_venda(db, r, q, p, Rat(12, 100), now)
            IN  /\ res.db.insumos = db.insumos
                /\ res.db.insumos_seq = db.insumos_seq
                /\ res.db.compras = db.compras
                /\ res.db.compras_seq = db.compras_seq)
    /\ [][db'.vendas_seq # db.vendas_seq
            => /\ db'.insumos = db.insumos
               /\ db'.compras = db.compras]_vars

C12_Witness ==
    /\ msg = "showinfo"
    /\ call # <<>>
    /\ db.vendas # {}
    /\ db.compras # {}
    /\ \E i \in db.insumos : RLt(Zero, i.estoque_qtd)

\* C13: delete_compra_db removes the purchase record it is given and nothing
\* else: every ingredient, the one the purchase names included, keeps its
\* stock and its average cost, and a step that removes a purchase record
\* changes no ingredient.
C13_ExcluirCompraNaoEstorna ==
    /\ [](\A x \in db.compras :
            delete_compra_db(db, x.id).db
              = [db EXCEPT !.compras = @ \ {x}])
    /\ [][db.compras \ db'.compras # {} => db'.insumos = db.insumos]_vars

C13_Witness ==
    /\ db.compras = {}
    /\ db.compras_seq = 1
    /\ \E i \in db.insumos :
          /\ i.estoque_qtd = R(10)
          /\ i.custo_medio = R(5)

\* C14: update_insumo_db, accepted or rejected, leaves the stock and the
\* average cost of the ingredient it targets and every field of every other
\* ingredient as they were; accepted, it sets the target's name, category
\* and unit; rejected, it changes nothing; no other table changes.
C14_EdicaoPreservaEstoque ==
    \A id \in 1..db.insumos_seq, n \in Nomes, c \in LivroCategoria,
       u \in LivroUnidade :
        LET res == update_insumo_db(db, id, n, c, u)
        IN  /\ res.db = [db EXCEPT !.insumos = res.db.insumos]
            /\ Cardinality(res.db.insumos) = Cardinality(db.insumos)
            /\ \A i \in db.insumos :
                  IF i.id # id THEN i \in res.db.insumos
                  ELSE IF res.msg = "showwarning" THEN i \in res.db.insumos
                  ELSE [i EXCEPT !.nome = n, !.categoria = c, !.unidade = u]
                         \in res.db.insumos

C14_Witness ==
    /\ msg = "showinfo"
    /\ Cardinality(db.insumos) = 2
    /\ \E i \in db.insumos :
          /\ i.categoria = "graos"
          /\ i.unidade = "g"
          /\ i.estoque_qtd = R(20)
          /\ i.custo_medio = Rat(15, 2)
    /\ \E i \in db.insumos : i.categoria = "carnes" /\ i.unidade = "kg"

\* C15: add_produto, update_insumo_db and delete_insumo_db leave the purchase
\* records as they were, those that carry the ingredient's name included:
\* none is removed, added or modified.
C15_InsumoNaoMexeNasCompras ==
    /\ \A n \in Nomes, c \in CategoriaInputs, u \in UnidadeInputs :
          LET res == add_produto(db, n, c, u)
          IN  /\ res.db.compras = db.compras
              /\ res.db.compras_seq = db.compras_seq
    /\ \A id \in 1..db.insumos_seq :
          /\ \A n \in Nomes, c \in LivroCategoria, u \in LivroUnidade :
                LET res == update_insumo_db(db, id, n, c, u)
                IN  /\ res.db.compras = db.compras
                    /\ res.db.compras_seq = db.compras_seq
          /\ LET res == delete_insumo_db(db, id)
             IN  /\ res.db.compras = db.compras
                 /\ res.db.compras_seq = db.compras_seq
                 /\ res.db.insumos = {i \in db.insumos : i.id # id}

C15_Witness ==
    /\ db.insumos = {}
    /\ db.insumos_seq = 1
    /\ Cardinality(db.compras) = 2
    /\ \A x \in db.compras : x.nome = "A"

\* C16: a registrar_compra_db call that succeeds appends exactly one purchase
\* record, holding the name, the quantity and the unit price it was given
\* (not the average cost it leaves on the ingredient), and leaves every
\* ingredient of another name as it was.
C16_CompraGuardaPrecoBruto ==
    /\ [](\A n \in Nomes, q \in LivroQtd, p \in LivroPreco :
            LET res == registrar_compra_db(db, n, q, p, "")
                x == [id |-> db.compras_seq + 1, nome |-> n,
                      quantidade |-> q, preco |-> p]
            IN  res.msg = "showinfo"
                => /\ x \notin db.compras
                   /\ res.db.compras = db.compras \cup {x}
                   /\ {i \in res.db.insumos : i.nome # n}
                        = {i \in db.insumos : i.nome # n})
    /\ [][db'.compras_seq # db.compras_seq
            => \E x \in db'.compras :
                  /\ x.id = db'.compras_seq
                  /\ x \notin db.compras
                  /\ db'.compras = db.compras \cup {x}
                  /\ {i \in db'.insumos : i.nome # x.nome}
                       = {i \in db.insumos : i.nome # x.nome}]_vars

C16_Witness ==
    /\ msg = "showinfo"
    /\ Cardinality(db.insumos) = 2
    /\ \E i \in db.insumos, x \in db.compras :
          /\ x.id = db.compras_seq
          /\ x.nome = i.nome
          /\ x.preco = R(10)
          /\ x.quantidade = R(10)
          /\ i.estoque_qtd = R(20)
          /\ i.custo_medio = Rat(15, 2)

\* C17: registrar_compra_db given a quantity that is not > 0 signals an
\* error and applies nothing, so the store holds no purchase record with
\* such a quantity and no ingredient with a negative stock.
C17_QuantidadeInvalidaFalha ==
    /\ \A x \in db.compras : RLt(Zero, x.quantidade)
    /\ \A i \in db.insumos : RLe(Zero, i.estoque_qtd)

\* the default credential as init_db stores it: the SHA-256 digest of "admin"
DigestAdmin == "8c6976e5b5410415bde908bd4dee15dfb167a9c873fc4bb8a81f6f2ab448a918"

\* C18: verify_user(u, p) is true exactly when a user named u is stored and
\* its stored verifier is the hash of p, so that the stored verifier given as
\* the password fails; init_db on an empty usuarios table stores admin with
\* the digest of "admin", after which verify_user("admin", "admin") is true;
\* init_db on a table that holds a user changes nothing.
C18_Credenciais ==
    /\ \A u \in UsuarioInputs, p \in SenhaInputs :
          verify_user(db, u, p)
            <=> \E r \in db.usuarios :
                   r.username = u /\ r.password_hash = _hash_pwd(p)
    /\ call # <<>>
       => (ret <=> \E r \in db.usuarios :
                      r.username = call[1] /\ r.password_hash = _hash_pwd(call[2]))
    /\ \A r \in db.usuarios : ~verify_user(db, r.username, r.password_hash)
    /\ db.usuarios # {} => init_db(db) = db
    /\ db.usuarios = {}
       => /\ init_db(db).usuarios
               = {[id |-> db.usuarios_seq + 1, username |-> "admin",
                   password_hash |-> DigestAdmin]}
          /\ verify_user(init_db(db), "admin", "admin")
          /\ ~verify_user(init_db(db), "admin", DigestAdmin)

C18_Witness ==
    /\ call = <<"admin", "admin">>
    /\ ret = TRUE
    /\ db.usuarios = {[id |-> 1, username |-> "admin",
                       password_hash |-> DigestAdmin]}

\* unit prices the purchase form lets through
PrecosAceitos == {p \in FormPreco : IsNum(p) /\ RLt(Zero, p)}

\* C19: in every state the forms reach, every ingredient has a stock >= 0
\* and an average cost >= 0, an ingredient with a positive stock has an
\* average cost between the lowest and the highest unit price purchased, and
\* an input the purchase form refuses leaves the store as it was.
C19_EstoqueECustoNaoNegativos ==
    /\ [](\A i \in db.insumos :
            /\ RLe(Zero, i.estoque_qtd)
            /\ RLe(Zero, i.custo_medio)
            /\ RLt(Zero, i.estoque_qtd)
               => /\ \E p \in PrecosAceitos : RLe(p, i.custo_medio)
                  /\ \E p \in PrecosAceitos : RLe(i.custo_medio, p))
    /\ [][msg' = "showwarning" => db' = db]_vars

\* C20: in the report loaded at any time over any set of sales, a sale
\* counted in Today is counted in Last 7 days, a sale counted in Last 7 days
\* is counted in Last 30 days and every sale is counted in All-time, so the
\* number of sales and the number of items of each window are <= those of
\* the next wider one.
C20_JanelasAninhadas ==
    /\ \A k \in 1..2 :
          /\ rel.hoje[k] <= rel.d7[k]
          /\ rel.d7[k] <= rel.d30[k]
          /\ rel.d30[k] <= rel.geral[k]
    /\ rel = load_relatorios_data(db, now)
    /\ \A v \in db.vendas :
          LET so == load_relatorios_data([db EXCEPT !.vendas = {v}], now)
          IN  /\ so.hoje[1] = 1 => so.d7[1] = 1
              /\ so.d7[1] = 1 => so.d30[1] = 1
              /\ so.geral[1] = 1

C20_Witness ==
    /\ now.seg > 0
    /\ rel.hoje[1] = 0
    /\ rel.d7[1] = 1
    /\ rel.d30[1] = 1
    /\ rel.geral[1] = 2
    /\ rel.d30[2] < rel.geral[2]

=============================================================================
